---- MODULE Spec2Model ----
(***************************************************************************)
(* A model of the QDSX engine (src/qdsx_engine.py): the reversible byte    *)
(* transforms (delta, RLE, BWT+MTF+RLE), the container header, and the     *)
(* pack / unpack orchestration with its integrity checks.                  *)
(*                                                                         *)
(* Bytes are the integers 0..255 and a byte string is a sequence of them.  *)
(* A Python function that may raise is modelled by an operator returning a *)
(* record [err |-> <kind>, val |-> <bytes>], err = "none" on success.      *)
(***************************************************************************)
EXTENDS Integers, Sequences, FiniteSets, TLC

\* ------------------------------------------------------------------ bounds

\* Longest input byte string drawn (besides the long runs below).
MaxLen == 5

\* How far the long single-byte runs exceed the RLE run cap.
MaxOver == 2

\* Longest input file packed.
MaxRaw == 3

\* Longest original of the artifacts handed to unpack.
MaxOrig == 2

\* The byte values inputs are drawn from: both ends of the range, so that the
\* modulo-256 arithmetic wraps.
ByteVals == {0, 1, 255}

\* The largest run length one RLE pair holds (tf_rle: run < 255).
MaxRun == 255

\* Number of byte values (the & 0xFF mask, the MTF alphabet).
ByteMod == 256

\* ----------------------------------------------------------------- helpers

\* A function over 1..n as a concrete tuple.
AsTuple(f) == f \o <<>>

\* [b] * n
Repeat(b, n) == AsTuple([k \in 1..n |-> b])

\* The least element of a non-empty set of integers.
Least(S) == CHOOSE x \in S : \A y \in S : x <= y

\* Every byte string over vals of length at most n.
RECURSIVE StringsUpTo(_, _)
StringsUpTo(vals, n) ==
    IF n = 0 THEN {<<>>}
    ELSE LET shorter == StringsUpTo(vals, n - 1)
         IN  shorter \cup {Append(s, v) : s \in {t \in shorter : Len(t) = n - 1}, v \in vals}

\* The loops over the bytes of a buffer are written as folds of the loop body
\* over the index range lo..hi, evaluated by halving the range: the body runs
\* once for every index, in increasing order, on the state the previous index
\* left. Then(st) holds once st is evaluated: the state the lower half leaves
\* is computed before the upper half starts.
Mid(lo, hi) == (lo + hi) \div 2

Then(st) == st = st

Ok(v)      == [err |-> "none", val |-> v]
Raise(e)   == [err |-> e, val |-> <<>>]

\* -------------------------------------------------------------- transforms

tf_none(data)  == data
itf_none(data) == data

\* tf_delta's loop body with prev = the byte just written instead of prev = b.
tf_delta_step_feedback(data, i, st) ==
    [prev |-> (data[i] - st.prev) % ByteMod,
     out  |-> Append(st.out, (data[i] - st.prev) % ByteMod)]

\* The body of tf_delta's loop for b = data[i].
tf_delta_step(data, i, st) ==
    [prev |-> data[i], out |-> Append(st.out, (data[i] - st.prev) % ByteMod)]

RECURSIVE tf_delta_loop(_, _, _, _)
tf_delta_loop(data, lo, hi, st) ==
    IF lo > hi THEN st
    ELSE IF lo = hi THEN tf_delta_step(data, lo, st)
    ELSE LET lower == tf_delta_loop(data, lo, Mid(lo, hi), st)
         IN  IF Then(lower) THEN tf_delta_loop(data, Mid(lo, hi) + 1, hi, lower) ELSE lower

tf_delta(data) == tf_delta_loop(data, 1, Len(data), [prev |-> 0, out |-> <<>>]).out

\* The body of itf_delta's loop for b = data[i].
itf_delta_step(data, i, st) ==
    LET val == (data[i] + st.prev) % ByteMod
    IN  [prev |-> val, out |-> Append(st.out, val)]

RECURSIVE itf_delta_loop(_, _, _, _)
itf_delta_loop(data, lo, hi, st) ==
    IF lo > hi THEN st
    ELSE IF lo = hi THEN itf_delta_step(data, lo, st)
    ELSE LET lower == itf_delta_loop(data, lo, Mid(lo, hi), st)
         IN  IF Then(lower) THEN itf_delta_loop(data, Mid(lo, hi) + 1, hi, lower) ELSE lower

itf_delta(data) == itf_delta_loop(data, 1, Len(data), [prev |-> 0, out |-> <<>>]).out

\* The inner while of tf_rle, entered at position i (1-based, the next unread
\* byte) with the count run: it advances while i < n and data[i] == b and
\* run < 255, so it stops at the first byte that differs, at the end of the
\* data, or when run reaches the cap. The value is the final run.
rle_run(data, i, b, run) ==
    LET stops == {j \in i..Len(data) : data[j] # b}
        stop  == IF stops = {} THEN Len(data) + 1 ELSE Least(stops)
        same  == stop - i
    IN  IF same < MaxRun - run THEN run + same ELSE MaxRun

RECURSIVE tf_rle_loop(_, _, _)
tf_rle_loop(data, i, out) ==
    IF i > Len(data) THEN out
    ELSE LET b   == data[i]
             run == rle_run(data, i + 1, b, 1)
         IN  tf_rle_loop(data, i + run, out \o <<b, run>>)

tf_rle(data) == tf_rle_loop(data, 1, <<>>)

\* The body of itf_rle's loop for the k-th pair (b, run) of zip(it, it), which
\* is (data[2k-1], data[2k]).
itf_rle_step(data, k, out) == out \o Repeat(data[2 * k - 1], data[2 * k])

RECURSIVE itf_rle_loop(_, _, _, _)
itf_rle_loop(data, lo, hi, out) ==
    IF lo > hi THEN out
    ELSE IF lo = hi THEN itf_rle_step(data, lo, out)
    ELSE LET lower == itf_rle_loop(data, lo, Mid(lo, hi), out)
         IN  IF Then(lower) THEN itf_rle_loop(data, Mid(lo, hi) + 1, hi, lower) ELSE lower

\* zip(it, it) yields a pair for as long as the iterator can supply both of
\* its members: Len(data) \div 2 pairs, a last odd byte being left unread.
itf_rle(data) == Ok(itf_rle_loop(data, 1, Len(data) \div 2, <<>>))

\* ------------------------------------------------------- BWT + MTF + RLE

\* data[i:] + data[:i], i a 0-based rotation index.
rot_key(data, i) == SubSeq(data, i + 1, Len(data)) \o SubSeq(data, 1, i)

\* a < b for byte strings of equal length (bytes compare lexicographically).
BytesLess(a, b) ==
    LET D == {k \in 1..Len(a) : a[k] # b[k]}
    IN  /\ D # {}
        /\ LET m == Least(D)
           IN  a[m] < b[m]

\* (b1, i1) < (b2, i2) for tuples of a byte and an index.
PairLess(p, q) == p[1] < q[1] \/ (p[1] = q[1] /\ p[2] < q[2])

\* acc with x put in after its first p members.
InsertAt(acc, p, x) == SubSeq(acc, 1, p) \o <<x>> \o SubSeq(acc, p + 1, Len(acc))

\* sorted(range(n), key=rot_key): Python's sort is stable, so rotation i goes
\* after every rotation already placed whose key is not greater than its own.
\* keys[i + 1] is rot_key(i); acc holds the rotations below i, sorted.
place_rotation(keys, i, acc) ==
    InsertAt(acc, Cardinality({k \in 1..Len(acc) :
                                  ~BytesLess(keys[i + 1], keys[acc[k] + 1])}), i)

RECURSIVE sorted_rotations(_, _, _, _)
sorted_rotations(keys, lo, hi, acc) ==
    IF lo > hi THEN acc
    ELSE IF lo = hi THEN place_rotation(keys, lo, acc)
    ELSE LET lower == sorted_rotations(keys, lo, Mid(lo, hi), acc)
         IN  IF Then(lower) THEN sorted_rotations(keys, Mid(lo, hi) + 1, hi, lower) ELSE lower

\* sorted([(b, i) ...]): pairs are distinct, compared by byte and then index.
place_pair(pairs, i, acc) ==
    InsertAt(acc, Cardinality({k \in 1..Len(acc) : PairLess(acc[k], pairs[i])}), pairs[i])

RECURSIVE sorted_pairs(_, _, _, _)
sorted_pairs(pairs, lo, hi, acc) ==
    IF lo > hi THEN acc
    ELSE IF lo = hi THEN place_pair(pairs, lo, acc)
    ELSE LET lower == sorted_pairs(pairs, lo, Mid(lo, hi), acc)
         IN  IF Then(lower) THEN sorted_pairs(pairs, Mid(lo, hi) + 1, hi, lower) ELSE lower

\* order.index(x): 0-based position of x in the list order.
index_of(order, x) == (CHOOSE r \in 1..Len(order) : order[r] = x) - 1

\* bwt_transform: the pair (last_col, primary).
bwt_transform(data) ==
    LET n == Len(data)
    IN  IF n = 0 THEN [last_col |-> <<>>, primary |-> 0]
        ELSE LET keys  == AsTuple([i \in 1..n |-> rot_key(data, i - 1)])
                 order == sorted_rotations(keys, 0, n - 1, <<>>)
             IN  [last_col |-> AsTuple([r \in 1..n |->
                                  IF order[r] # 0 THEN data[order[r]] ELSE data[n]]),
                  primary  |-> index_of(order, 0)]

\* occ[r]: how many of seq[1..r] equal seq[r] (the count_map loops).
occurrence_ranks(seq) ==
    AsTuple([r \in 1..Len(seq) |-> Cardinality({k \in 1..r : seq[k] = seq[r]})])

\* The final loop of bwt_inverse filling res left to right.
bwt_walk_step_forward(last, LF, st) ==
    [r |-> LF[st.r + 1], res |-> Append(st.res, last[st.r + 1])]

\* The body of the final loop of bwt_inverse: res is filled right to left;
\* r is 0-based.
bwt_walk_step(last, LF, st) ==
    [r |-> LF[st.r + 1], res |-> <<last[st.r + 1]>> \o st.res]

RECURSIVE bwt_walk(_, _, _, _, _)
bwt_walk(last, LF, lo, hi, st) ==
    IF lo > hi THEN st
    ELSE IF lo = hi THEN bwt_walk_step(last, LF, st)
    ELSE LET lower == bwt_walk(last, LF, lo, Mid(lo, hi), st)
         IN  IF Then(lower) THEN bwt_walk(last, LF, Mid(lo, hi) + 1, hi, lower) ELSE lower

bwt_inverse(last_col, primary) ==
    LET n == Len(last_col)
    IN  IF n = 0 THEN Ok(<<>>)
        ELSE LET last      == last_col
                 first     == sorted_pairs(AsTuple([i \in 1..n |-> <<last[i], i - 1>>]),
                                           1, n, <<>>)
                 occ_last  == occurrence_ranks(last)
                 occ_first == occurrence_ranks(AsTuple([x \in 1..n |-> first[x][1]]))
                 \* pos_first[(b, k)] = idx, and LF[r] = pos_first[(last[r], occ_last[r])]
                 LF        == AsTuple([r \in 1..n |->
                                  (CHOOSE x \in 1..n :
                                      /\ first[x][1] = last[r]
                                      /\ occ_first[x] = occ_last[r]) - 1])
             IN  \* res[i] = last[r] with r = primary out of range: IndexError
                 IF primary >= n THEN Raise("IndexError")
                 ELSE Ok(bwt_walk(last, LF, 1, n, [r |-> primary, res |-> <<>>]).res)

\* alphabet.pop(idx); alphabet.insert(0, b), idx 0-based.
move_to_front(alphabet, idx) ==
    <<alphabet[idx + 1]>> \o SubSeq(alphabet, 1, idx)
                          \o SubSeq(alphabet, idx + 2, Len(alphabet))

\* list(range(256))
initial_alphabet == AsTuple([k \in 1..ByteMod |-> k - 1])

\* The body of mtf_encode's loop for b = data[i].
mtf_encode_step(data, i, st) ==
    LET idx == index_of(st.alphabet, data[i])
    IN  [alphabet |-> move_to_front(st.alphabet, idx), out |-> Append(st.out, idx)]

RECURSIVE mtf_encode_loop(_, _, _, _)
mtf_encode_loop(data, lo, hi, st) ==
    IF lo > hi THEN st
    ELSE IF lo = hi THEN mtf_encode_step(data, lo, st)
    ELSE LET lower == mtf_encode_loop(data, lo, Mid(lo, hi), st)
         IN  IF Then(lower) THEN mtf_encode_loop(data, Mid(lo, hi) + 1, hi, lower) ELSE lower

mtf_encode(data) ==
    mtf_encode_loop(data, 1, Len(data), [alphabet |-> initial_alphabet, out |-> <<>>]).out

\* The body of mtf_decode's loop for idx = data[i].
mtf_decode_step(data, i, st) ==
    LET idx == data[i]
    IN  [alphabet |-> move_to_front(st.alphabet, idx),
         out      |-> Append(st.out, st.alphabet[idx + 1])]

RECURSIVE mtf_decode_loop(_, _, _, _)
mtf_decode_loop(data, lo, hi, st) ==
    IF lo > hi THEN st
    ELSE IF lo = hi THEN mtf_decode_step(data, lo, st)
    ELSE LET lower == mtf_decode_loop(data, lo, Mid(lo, hi), st)
         IN  IF Then(lower) THEN mtf_decode_loop(data, Mid(lo, hi) + 1, hi, lower) ELSE lower

mtf_decode(data) ==
    mtf_decode_loop(data, 1, Len(data), [alphabet |-> initial_alphabet, out |-> <<>>]).out

\* struct.pack(">I", v): four bytes, most significant first.
pack_u32(v) ==
    << (v \div (ByteMod * ByteMod * ByteMod)) % ByteMod,
       (v \div (ByteMod * ByteMod)) % ByteMod,
       (v \div ByteMod) % ByteMod,
       v % ByteMod >>

\* Python's integers are unbounded and the model checker's are 32-bit signed:
\* a decoded uint32 above IntCap is represented by IntCap. The code only
\* compares such a value with buffer lengths, all far below IntCap.
IntCap == 2000 * 1000 * 1000

\* struct.unpack(">I", b)[0] for a 4-byte b.
unpack_u32(b) ==
    IF b[1] >= IntCap \div (ByteMod * ByteMod * ByteMod) THEN IntCap
    ELSE ((b[1] * ByteMod + b[2]) * ByteMod + b[3]) * ByteMod + b[4]

\* Bytes of the primary_index prefix.
PrefixLen == 4

tf_bwt_mtf_rle(data) ==
    LET bwt == bwt_transform(data)
        mtf == mtf_encode(bwt.last_col)
    IN  pack_u32(bwt.primary) \o tf_rle(mtf)

itf_bwt_mtf_rle(payload) ==
    IF Len(payload) < PrefixLen THEN Ok(<<>>)
    ELSE LET primary  == unpack_u32(SubSeq(payload, 1, PrefixLen))
             mtf_rle  == SubSeq(payload, PrefixLen + 1, Len(payload))
             mtf      == itf_rle(mtf_rle).val
             bwt_last == mtf_decode(mtf)
         IN  bwt_inverse(bwt_last, primary)

\* TRANSFORMS, in the dict's (insertion) order.
TransformNames == <<"none", "delta", "rle", "bwt_mtf_rle">>

\* TRANSFORMS[tname][0](data)
forward(tname, data) ==
    CASE tname = "none"        -> tf_none(data)
      [] tname = "delta"       -> tf_delta(data)
      [] tname = "rle"         -> tf_rle(data)
      [] tname = "bwt_mtf_rle" -> tf_bwt_mtf_rle(data)

\* TRANSFORMS[tname][1](data)
inverse(tname, data) ==
    CASE tname = "none"        -> Ok(itf_none(data))
      [] tname = "delta"       -> Ok(itf_delta(data))
      [] tname = "rle"         -> itf_rle(data)
      [] tname = "bwt_mtf_rle" -> itf_bwt_mtf_rle(data)


\* ------------------------------------------------------------------ codecs

\* CODECS, in the dict's (insertion) order.
CodecNames == <<"zlib", "bz2", "lzma">>

\* The set of the members of a sequence.
Range(seq) == {seq[k] : k \in 1..Len(seq)}

\* The entropy coders are external libraries (zlib, bz2, lzma). They are
\* modelled by their contract: compress either fails or yields a stream that
\* decompress maps back to the input; a stream starts with the format's own
\* first byte and carries a format overhead that the environment fixes;
\* decompress fails on bytes that are no such stream.
StreamTag(cname) ==
    CASE cname = "zlib" -> 120
      [] cname = "bz2"  -> 66
      [] cname = "lzma" -> 253

\* CODECS[cname][0](tdata); env is the environment of the run.
enc(cname, tdata, env) ==
    IF cname \in env.enc_fail THEN Raise("CodecFailure")
    ELSE Ok(<<StreamTag(cname)>> \o Repeat(0, env.overhead[cname]) \o tdata)

\* CODECS[cname][1](cdata)
dec(cname, cdata, env) ==
    LET ov == env.overhead[cname]
    IN  IF \/ Len(cdata) < 1 + ov
           \/ cdata[1] # StreamTag(cname)
           \/ \E k \in 2..(1 + ov) : cdata[k] # 0
        THEN Raise("CodecFailure")
        ELSE Ok(SubSeq(cdata, 2 + ov, Len(cdata)))

\* ------------------------------------------------------------------ header

\* MAGIC = b"QDSX"
MAGIC == <<81, 68, 83, 88>>

VERSION == 2

\* Bytes of magic + version + header length before the metadata.
FixedPrefix == 12

RECURSIVE sha256_loop(_, _, _, _)
sha256_loop(b, lo, hi, h) ==
    IF lo > hi THEN h
    ELSE IF lo = hi THEN (h * 33 + b[lo] + 1) % ByteMod
    ELSE LET lower == sha256_loop(b, lo, Mid(lo, hi), h)
         IN  IF Then(lower) THEN sha256_loop(b, Mid(lo, hi) + 1, hi, lower) ELSE lower

\* sha256_bytes: a digest of fixed width. The model keeps one byte of width,
\* so distinct inputs may collide, as they may (far more rarely) in SHA-256.
sha256_bytes(b) == sha256_loop(b, 1, Len(b), 106)

\* The metadata is a JSON object, serialised with sorted keys. The model
\* writes an object as '{' (key value)* '}' with one byte for each key and
\* one for each value; orig_name and timestamp, which no decoding step reads,
\* are left out. Keys in sorted order of their names:
\* codec, orig_sha256, orig_size, transform, version.
HeaderKeys == <<"codec", "orig_sha256", "orig_size", "transform", "version">>

KeyByte(key) ==
    CASE key = "codec"       -> 99
      [] key = "orig_sha256" -> 104
      [] key = "orig_size"   -> 115
      [] key = "transform"   -> 116
      [] key = "version"     -> 118

\* A transform or codec name as the value byte of the metadata, and back; a
\* byte that stands for no registered name reads as an unregistered name.
NameTable == <<"none", "delta", "rle", "bwt_mtf_rle", "zlib", "bz2", "lzma">>

NameByte(name) == index_of(NameTable, name)

ByteName(v) == IF v < Len(NameTable) THEN NameTable[v + 1] ELSE "unregistered"

IsNameKey(key) == key \in {"codec", "transform"}

OpenBrace  == 123
CloseBrace == 125

\* json.dumps(header, sort_keys=True).encode("utf-8")
json_dumps(header) ==
    LET keys == SelectSeq(HeaderKeys, LAMBDA k : k \in DOMAIN header)
        RECURSIVE body(_)
        body(i) == IF i > Len(keys) THEN <<>>
                   ELSE << KeyByte(keys[i]),
                           IF IsNameKey(keys[i]) THEN NameByte(header[keys[i]])
                           ELSE header[keys[i]] >> \o body(i + 1)
    IN  <<OpenBrace>> \o body(1) \o <<CloseBrace>>

\* json.loads(hdr_json.decode("utf-8")): the object, or a decode error on
\* bytes that are no object. A key written twice keeps its last value.
json_loads(b) ==
    LET n      == Len(b)
        pairs  == (n - 2) \div 2
        keyAt(k) == b[2 * k]
        valAt(k) == b[2 * k + 1]
        known  == {KeyByte(HeaderKeys[i]) : i \in 1..Len(HeaderKeys)}
    IN  IF \/ n < 2
           \/ b[1] # OpenBrace
           \/ b[n] # CloseBrace
           \/ n % 2 # 0
           \/ \E k \in 1..pairs : keyAt(k) \notin known
        THEN [err |-> "JSONDecodeError", val |-> <<>>]
        ELSE LET present == {key \in Range(HeaderKeys) :
                                \E k \in 1..pairs : keyAt(k) = KeyByte(key)}
                 last(key) == CHOOSE k \in 1..pairs :
                                 /\ keyAt(k) = KeyByte(key)
                                 /\ \A j \in 1..pairs : keyAt(j) = KeyByte(key) => j <= k
             IN  Ok([key \in present |->
                        IF IsNameKey(key) THEN ByteName(valAt(last(key)))
                        ELSE valAt(last(key))])

\* The bounds check with >= for >.
length_exceeds_strict(off, hlen, blob) == off + hlen >= Len(blob)

\* if off + hlen > len(blob)
length_exceeds(off, hlen, blob) == off + hlen > Len(blob)

encode_header(header) ==
    LET hdr == json_dumps(header)
    IN  MAGIC \o pack_u32(VERSION) \o pack_u32(Len(hdr)) \o hdr

\* parse_header: err, and on success version, header, cdata. hlen and the
\* metadata slice hdr_json are kept beside them.
parse_header(blob) ==
    LET fail(e) == [err |-> e, version |-> 0, hlen |-> 0, hdr_json |-> <<>>,
                    header |-> <<>>, cdata |-> <<>>]
    IN  IF Len(blob) < FixedPrefix THEN fail("HeaderTooSmall")
        ELSE IF SubSeq(blob, 1, 4) # MAGIC THEN fail("BadMagic")
        ELSE LET version == unpack_u32(SubSeq(blob, 5, 8))
                 hlen    == unpack_u32(SubSeq(blob, 9, 12))
                 off     == FixedPrefix
             IN  IF length_exceeds(off, hlen, blob) THEN fail("CorruptHeaderLength")
                 ELSE LET hdr_json == SubSeq(blob, off + 1, off + hlen)
                          header   == json_loads(hdr_json)
                      IN  IF header.err # "none" THEN fail(header.err)
                          ELSE [err |-> "none", version |-> version, hlen |-> hlen,
                                hdr_json |-> hdr_json, header |-> header.val,
                                cdata |-> SubSeq(blob, off + hlen + 1, Len(blob))]

\* header.get(key, default)
dict_get(header, key, default) ==
    IF key \in DOMAIN header THEN header[key] ELSE default

\* ------------------------------------------------------------------ unpack

\* A file: absent, or present with its bytes.
NoFile      == [exists |-> FALSE, bytes |-> <<>>]
FileOf(b)   == [exists |-> TRUE, bytes |-> b]

\* The paths of a run: the input file and the artifact beside it.
\* Path(qpath).with_suffix("") of the artifact path is the input path.
Paths == {"path", "path.qdsx"}

\* The hash comparison left out.
checksum_ok_always(data, stored) == TRUE

\* sha256_bytes(raw) != header["orig_sha256"], negated
checksum_ok(data, stored) == sha256_bytes(data) = stored

\* qdsx_unpack on the bytes of the artifact file. The result says how the call
\* ended (err), whether the codec and inverse transform ran (decoded), the
\* bytes the decoding produced (have_raw, raw), and what was delivered: the
\* bytes returned (returned, ret) or the file written (wrote, out).
qdsx_unpack(blob, return_bytes, env) ==
    LET none  == [err |-> "none", decoded |-> FALSE, have_raw |-> FALSE, raw |-> <<>>,
                  returned |-> FALSE, ret |-> <<>>, wrote |-> FALSE, out |-> <<>>]
        p     == parse_header(blob)
        tname == dict_get(p.header, "transform", "none")
        cname == dict_get(p.header, "codec", "none")
        skip  == dict_get(p.header, "orig_size", 0) = 0 /\ cname = "none"
        d     == dec(cname, p.cdata, env)
        r     == inverse(tname, d.val)
        raw   == IF skip THEN <<>> ELSE r.val
        got   == [none EXCEPT !.decoded = ~skip, !.have_raw = TRUE, !.raw = raw]
    IN  IF p.err # "none" THEN [none EXCEPT !.err = p.err]
        ELSE IF ~skip /\ cname \notin Range(CodecNames)
             THEN [none EXCEPT !.err = "UnknownCodec"]
        ELSE IF ~skip /\ tname \notin Range(TransformNames)
             THEN [none EXCEPT !.err = "UnknownTransform"]
        ELSE IF ~skip /\ d.err # "none"
             THEN [none EXCEPT !.err = d.err, !.decoded = TRUE]
        ELSE IF ~skip /\ r.err # "none"
             THEN [none EXCEPT !.err = r.err, !.decoded = TRUE]
        ELSE IF "orig_sha256" \notin DOMAIN p.header
             THEN [got EXCEPT !.err = "KeyError"]
        ELSE IF ~checksum_ok(raw, p.header["orig_sha256"])
             THEN [got EXCEPT !.err = "ChecksumMismatch"]
        ELSE IF return_bytes
             THEN [got EXCEPT !.returned = TRUE, !.ret = raw]
        ELSE [got EXCEPT !.wrote = TRUE, !.out = raw]

\* -------------------------------------------------------------------- pack

\* best_size = None
NoSize == -1

\* best_key = None
NoKey == <<>>

\* The header dict qdsx_pack builds.
pack_header(size, sha, tname, cname) ==
    [key \in Range(HeaderKeys) |->
        CASE key = "version"     -> VERSION
          [] key = "orig_size"   -> size
          [] key = "orig_sha256" -> sha
          [] key = "transform"   -> tname
          [] key = "codec"       -> cname]

\* tf(raw) inside the try: the environment may make a transform fail (the
\* except clause catches any Exception, such as running out of memory).
try_forward(tname, raw, env) ==
    IF tname \in env.tf_fail THEN Raise("TransformFailure")
    ELSE Ok(forward(tname, raw))

\* break for continue: a codec failure ends the inner loop.
after_codec_failure_break(ci) == Len(CodecNames) + 1

\* continue: the codec tried after codec ci failed.
after_codec_failure(ci) == ci + 1

\* The comparison with <= for <: the last candidate of the least size wins.
improves_or_ties(size, best_size) == best_size = NoSize \/ size <= best_size

\* if best_size is None or size < best_size
improves(size, best_size) == best_size = NoSize \/ size < best_size

RECURSIVE codec_loop(_, _, _, _, _)
\* The inner for of the search, from codec ci on. st holds best_size,
\* best_key and the trace: one entry for every forward transform and every
\* compression attempted, in order, with how it ended.
codec_loop(tname, tdata, ci, env, st) ==
    IF ci > Len(CodecNames) THEN st
    ELSE LET cname == CodecNames[ci]
             c     == enc(cname, tdata, env)
             size  == Len(c.val)
         IN  IF c.err # "none"
             THEN codec_loop(tname, tdata, after_codec_failure(ci), env,
                      [st EXCEPT !.trace = Append(@, [t |-> tname, c |-> cname,
                                                      end |-> "CODEC FAIL", size |-> NoSize])])
             ELSE codec_loop(tname, tdata, ci + 1, env,
                      [best_size |-> IF improves(size, st.best_size) THEN size
                                     ELSE st.best_size,
                       best_key  |-> IF improves(size, st.best_size)
                                     THEN <<tname, cname, c.val>> ELSE st.best_key,
                       trace     |-> Append(st.trace, [t |-> tname, c |-> cname,
                                                       end |-> "ok", size |-> size])])

RECURSIVE transform_loop(_, _, _, _)
\* The outer for of the search, from transform ti on.
transform_loop(raw, ti, env, st) ==
    IF ti > Len(TransformNames) THEN st
    ELSE LET tname == TransformNames[ti]
             t     == try_forward(tname, raw, env)
         IN  IF t.err # "none"
             THEN transform_loop(raw, ti + 1, env,
                      [st EXCEPT !.trace = Append(@, [t |-> tname, c |-> "",
                                                      end |-> "TRANSFORM FAIL",
                                                      size |-> NoSize])])
             ELSE transform_loop(raw, ti + 1, env, codec_loop(tname, t.val, 1, env, st))

\* The whole search of qdsx_pack.
search(raw, env) ==
    transform_loop(raw, 1, env, [best_size |-> NoSize, best_key |-> NoKey, trace |-> <<>>])

\* ------------------------------------------------------------------- state

VARIABLES
    files,      \* path -> file: the input file and the artifact
    env,        \* the environment: codec overheads, failing transforms / codecs
    pc,         \* where qdsx_pack is
    raw,        \* qdsx_pack's raw
    best_size,  \* qdsx_pack's best_size
    best_key,   \* qdsx_pack's best_key
    trace,      \* what the search attempted, in order
    err,        \* the error qdsx_pack raised
    verified,   \* qdsx_pack's self-check: whether it ran, and what it restored
    u_res,      \* the result of the last qdsx_unpack call from outside
    parsed,     \* the result of the last parse_header call from outside
    damaged,    \* how the artifact was altered after it was written, if it was
    t_in,       \* a transform's input
    t_name,     \* the transform applied
    t_stage,    \* "input", "forward", "round" or "decoded"
    t_out,      \* the forward transform's output
    t_back      \* the inverse transform's result

vars == <<files, env, pc, raw, best_size, best_key, trace, err, verified,
          u_res, parsed, damaged, t_in, t_name, t_stage, t_out, t_back>>

packVars      == <<pc, raw, best_size, best_key, trace, err, verified>>
transformVars == <<t_in, t_name, t_stage, t_out, t_back>>

\* No qdsx_unpack call and no parse_header call from outside yet.
UnpackNotRun ==
    [err |-> "not run", decoded |-> FALSE, have_raw |-> FALSE, raw |-> <<>>,
     returned |-> FALSE, ret |-> <<>>, wrote |-> FALSE, out |-> <<>>]

ParseNotRun ==
    [err |-> "not run", version |-> 0, hlen |-> 0, hdr_json |-> <<>>,
     header |-> <<>>, cdata |-> <<>>]

\* The byte values of packed files.
FileVals == {0, 1}

\* Overheads a codec's format may add.
Overheads == {0, 1}

Environments ==
    [overhead : [Range(CodecNames) -> Overheads],
     tf_fail  : SUBSET Range(TransformNames),
     enc_fail : SUBSET Range(CodecNames)]

\* An environment in which nothing fails.
Sound(e) == e.tf_fail = {} /\ e.enc_fail = {}

PackIdle ==
    /\ pc = "Idle" /\ raw = <<>> /\ best_size = NoSize /\ best_key = NoKey
    /\ trace = <<>> /\ err = "none" /\ verified = [ran |-> FALSE, restored |-> <<>>]

Intact == [kind |-> "none", at |-> 0]

UnpackIdle == u_res = UnpackNotRun /\ parsed = ParseNotRun /\ damaged = Intact

TransformIdle ==
    t_in = <<>> /\ t_name = "none" /\ t_stage = "idle" /\ t_out = <<>> /\ t_back = Ok(<<>>)

\* ------------------------------------------------------------- pack actions

\* with open(path, "rb") as f: raw = f.read()
Read ==
    /\ pc = "Reading"
    /\ raw' = files["path"].bytes
    /\ pc' = IF raw' = <<>> THEN "Serializing" ELSE "Searching"
    /\ UNCHANGED <<files, env, best_size, best_key, trace, err, verified,
                   u_res, parsed, damaged, transformVars>>

\* The for loops over TRANSFORMS and CODECS.
Search ==
    /\ pc = "Searching"
    /\ LET st == search(raw, env)
       IN  /\ best_size' = st.best_size
           /\ best_key' = st.best_key
           /\ trace' = st.trace
    /\ pc' = "Selecting"
    /\ UNCHANGED <<files, env, raw, err, verified, u_res, parsed, damaged, transformVars>>

\* if best_key is None: raise RuntimeError("No working transform/codec combo for file")
Select ==
    /\ pc = "Selecting"
    /\ pc' = IF best_key = NoKey THEN "Failed" ELSE "Serializing"
    /\ err' = IF best_key = NoKey THEN "NoViableStrategy" ELSE err
    /\ UNCHANGED <<files, env, raw, best_size, best_key, trace, verified,
                   u_res, parsed, damaged, transformVars>>

\* The empty branch recording the first codec instead of "none".
pack_blob_first_codec(data, key) ==
    IF data = <<>>
    THEN encode_header(pack_header(0, sha256_bytes(<<>>), "none", CodecNames[1]))
    ELSE encode_header(pack_header(Len(data), sha256_bytes(data), key[1], key[2])) \o key[3]

\* The blob qdsx_pack writes: for an empty raw the header alone.
pack_blob(data, key) ==
    IF data = <<>>
    THEN encode_header(pack_header(0, sha256_bytes(<<>>), "none", "none"))
    ELSE encode_header(pack_header(Len(data), sha256_bytes(data), key[1], key[2])) \o key[3]

\* Build the header and the blob and write the artifact. The empty branch
\* returns outpath right after the write.
Serialize ==
    /\ pc = "Serializing"
    /\ files' = [files EXCEPT !["path.qdsx"] = FileOf(pack_blob(raw, best_key))]
    /\ pc' = IF raw = <<>> THEN "Done" ELSE "SelfVerifying"
    /\ UNCHANGED <<env, raw, best_size, best_key, trace, err, verified,
                   u_res, parsed, damaged, transformVars>>

\* restored = qdsx_unpack(outpath, return_bytes=True); if restored != raw: raise
SelfVerify ==
    /\ pc = "SelfVerifying"
    /\ LET res == qdsx_unpack(files["path.qdsx"].bytes, TRUE, env)
       IN  /\ verified' = [ran |-> TRUE, restored |-> res.ret]
           /\ err' = IF res.err # "none" THEN res.err
                     ELSE IF res.ret # raw THEN "IntegrityFailure" ELSE err
           /\ pc' = IF res.err # "none" \/ res.ret # raw THEN "Failed" ELSE "Done"
    /\ UNCHANGED <<files, env, raw, best_size, best_key, trace,
                   u_res, parsed, damaged, transformVars>>

\* ----------------------------------------------------------- unpack actions

\* qdsx_unpack(qpath, return_bytes) called on the artifact file.
Unpack(return_bytes) ==
    /\ pc \in {"Done", "Idle"}
    /\ files["path.qdsx"].exists
    /\ u_res = UnpackNotRun /\ parsed = ParseNotRun
    /\ LET res == qdsx_unpack(files["path.qdsx"].bytes, return_bytes, env)
       IN  /\ u_res' = res
           /\ files' = IF res.wrote THEN [files EXCEPT !["path"] = FileOf(res.out)]
                       ELSE files
    /\ UNCHANGED <<env, packVars, parsed, damaged, transformVars>>

\* parse_header called on the bytes of the artifact file.
Parse ==
    /\ pc = "Idle"
    /\ parsed = ParseNotRun
    /\ u_res = UnpackNotRun
    /\ parsed' = parse_header(files["path.qdsx"].bytes)
    /\ UNCHANGED <<files, env, packVars, u_res, damaged, transformVars>>

\* The values a damaged byte may take.
DamageVals == {0, 1, 2, 4, 13, 99, 255}

\* One byte of the stored artifact is altered.
Tamper(k, v) ==
    /\ pc = "Idle"
    /\ damaged = Intact /\ parsed = ParseNotRun /\ u_res = UnpackNotRun
    /\ k \in 1..Len(files["path.qdsx"].bytes)
    /\ files["path.qdsx"].bytes[k] # v
    /\ files' = [files EXCEPT !["path.qdsx"].bytes[k] = v]
    /\ damaged' = [kind |-> "byte", at |-> k]
    /\ UNCHANGED <<env, packVars, u_res, parsed, transformVars>>

\* The stored artifact is cut short to k bytes.
Truncate(k) ==
    /\ pc = "Idle"
    /\ damaged = Intact /\ parsed = ParseNotRun /\ u_res = UnpackNotRun
    /\ k < Len(files["path.qdsx"].bytes)
    /\ files' = [files EXCEPT !["path.qdsx"].bytes = SubSeq(@, 1, k)]
    /\ damaged' = [kind |-> "cut", at |-> k]
    /\ UNCHANGED <<env, packVars, u_res, parsed, transformVars>>

\* -------------------------------------------------------- transform actions

\* Transform inputs: every short byte string, and single-byte runs at and
\* beyond the RLE run cap, alone and followed by another byte.
ShortInputs == StringsUpTo(ByteVals, MaxLen)

LongInputs ==
    {Repeat(1, MaxRun + k) \o tail : k \in 0..MaxOver, tail \in {<<>>, <<0>>}}

\* TRANSFORMS[tname][0](t_in)
Forward(tname) ==
    /\ t_stage = "input"
    /\ t_name' = tname
    /\ t_out' = forward(tname, t_in)
    /\ t_stage' = "forward"
    /\ UNCHANGED <<files, env, packVars, u_res, parsed, damaged, t_in, t_back>>

\* TRANSFORMS[t_name][1] applied to the forward output.
Inverse ==
    /\ t_stage = "forward"
    /\ t_back' = inverse(t_name, t_out)
    /\ t_stage' = "round"
    /\ UNCHANGED <<files, env, packVars, u_res, parsed, damaged, t_in, t_name, t_out>>

\* TRANSFORMS[tname][1] applied to t_in as an arbitrary payload.
Decode(tname) ==
    /\ t_stage = "input"
    /\ t_name' = tname
    /\ t_back' = inverse(tname, t_in)
    /\ t_stage' = "decoded"
    /\ UNCHANGED <<files, env, packVars, u_res, parsed, damaged, t_in, t_out>>

\* ----------------------------------------------------------- specifications

\* qdsx_pack on an input file, then qdsx_unpack of the artifact it produced.
Init ==
    /\ \E s \in StringsUpTo(FileVals, MaxRaw) :
          files = [p \in Paths |-> IF p = "path" THEN FileOf(s) ELSE NoFile]
    /\ env \in Environments
    /\ pc = "Reading" /\ raw = <<>> /\ best_size = NoSize /\ best_key = NoKey
    /\ trace = <<>> /\ err = "none" /\ verified = [ran |-> FALSE, restored |-> <<>>]
    /\ UnpackIdle
    /\ TransformIdle

Next ==
    \/ Read
    \/ Search
    \/ Select
    \/ Serialize
    \/ SelfVerify
    \/ \E rb \in BOOLEAN : Unpack(rb)

Spec == Init /\ [][Next]_vars

\* The artifacts a pack can leave: any succeeded candidate may be the best
\* one, depending on which others failed.
Artifacts(e) ==
    {pack_blob(<<>>, NoKey)} \cup
    {pack_blob(s, <<t, c, enc(c, forward(t, s), e).val>>) :
        s \in StringsUpTo(FileVals, MaxOrig) \ {<<>>},
        t \in Range(TransformNames), c \in Range(CodecNames)}

\* qdsx_unpack and parse_header on an artifact file, intact or damaged.
InitUnpack ==
    /\ env \in {e \in Environments : Sound(e) /\ \A c \in Range(CodecNames) : e.overhead[c] = 0}
    /\ \E a \in Artifacts(env) :
          files = [p \in Paths |-> IF p = "path" THEN NoFile ELSE FileOf(a)]
    /\ PackIdle
    /\ UnpackIdle
    /\ TransformIdle

NextUnpack ==
    \/ \E k \in 1..Len(files["path.qdsx"].bytes), v \in DamageVals : Tamper(k, v)
    \/ \E k \in 0..(Len(files["path.qdsx"].bytes) - 1) : Truncate(k)
    \/ Parse
    \/ \E rb \in BOOLEAN : Unpack(rb)

SpecUnpack == InitUnpack /\ [][NextUnpack]_vars

\* The transforms as pure functions of their input.
InitTransforms ==
    /\ t_in \in ShortInputs \cup LongInputs
    /\ t_name = "none" /\ t_stage = "input" /\ t_out = <<>> /\ t_back = Ok(<<>>)
    /\ files = [p \in Paths |-> NoFile]
    /\ env \in {e \in Environments : Sound(e) /\ \A c \in Range(CodecNames) : e.overhead[c] = 0}
    /\ PackIdle
    /\ UnpackIdle

NextTransforms ==
    \/ \E tname \in Range(TransformNames) : Forward(tname)
    \/ Inverse
    \/ \E tname \in Range(TransformNames) : Decode(tname)

SpecTransforms == InitTransforms /\ [][NextTransforms]_vars

\* ------------------------------------------------------------------ claims

\* The bytes of the artifact file.
Blob == files["path.qdsx"].bytes

\* The bytes an unpack delivered: returned to the caller or written.
Delivered == IF u_res.returned THEN u_res.ret ELSE u_res.out

\* The 1-based places of the succeeded candidates in the trace.
Succeeded == {k \in 1..Len(trace) : trace[k].end = "ok"}

\* The place of a candidate in the iteration: transforms outside, codecs inside.
IterationRank(e) ==
    index_of(TransformNames, e.t) * Len(CodecNames) + index_of(CodecNames, e.c)

\* C1: for every input byte string and every registered transform, the
\* inverse applied to the forward output succeeds and returns the input.
C1_RoundTrip ==
    t_stage = "round" => t_back = [err |-> "none", val |-> t_in]

\* C1 witness: the composite transform has round-tripped a periodic string,
\* whose rotations tie.
C1_Witness ==
    /\ t_stage = "round" /\ t_name = "bwt_mtf_rle"
    /\ t_in = <<1, 0, 1, 0>>
    /\ t_out = <<0, 0, 0, 2, 1, 1, 0, 1, 1, 1, 0, 1>>
    /\ t_back.val = t_in

\* C2: pack reaches Done only after it has decoded the artifact it wrote
\* through qdsx_unpack and found the restored bytes equal to its input, for
\* empty and non-empty input alike.
C2_DoneOnlyAfterSelfCheck ==
    pc = "Done" => (verified.ran /\ verified.restored = raw)

\* C3: unpack delivers bytes (returned or written) only when their hash equals
\* the hash stored in the artifact's metadata; when the decoded bytes hash to
\* something else it fails with ChecksumMismatch and delivers nothing.
C3_DeliversOnlyVerified ==
    u_res.err # "not run" =>
        LET p == parse_header(Blob)
        IN  /\ (u_res.returned \/ u_res.wrote) =>
                  /\ u_res.err = "none"
                  /\ p.err = "none"
                  /\ "orig_sha256" \in DOMAIN p.header
                  /\ sha256_bytes(Delivered) = p.header["orig_sha256"]
                  /\ Delivered = u_res.raw
            /\ u_res.wrote <=> files["path"].exists
            /\ u_res.wrote => files["path"].bytes = u_res.out
            /\ ( /\ u_res.have_raw
                 /\ "orig_sha256" \in DOMAIN p.header
                 /\ sha256_bytes(u_res.raw) # p.header["orig_sha256"] ) =>
                  /\ u_res.err = "ChecksumMismatch"
                  /\ ~u_res.returned /\ ~u_res.wrote
                  /\ ~files["path"].exists

\* C3 witness: a byte of the compressed payload was altered, the payload still
\* decoded, and unpack ended in ChecksumMismatch with nothing delivered.
C3_Witness ==
    /\ damaged.kind = "byte"
    /\ damaged.at > Len(Blob) - Len(parse_header(Blob).cdata)
    /\ u_res.err = "ChecksumMismatch"
    /\ u_res.decoded /\ u_res.have_raw
    /\ ~u_res.returned /\ ~u_res.wrote /\ ~files["path"].exists

\* The metadata length the blob declares (bytes 9..12), for a blob of 12 bytes
\* or more.
DeclaredLength == unpack_u32(SubSeq(Blob, 9, 12))

\* What parse_header returned is the decoding of Blob with metadata meta.
ReturnsDecoding(meta) ==
    /\ parsed.err = "none"
    /\ parsed.version = unpack_u32(SubSeq(Blob, 5, 8))
    /\ parsed.hdr_json = SubSeq(Blob, 13, 12 + DeclaredLength)
    /\ Len(parsed.hdr_json) = DeclaredLength
    /\ parsed.header = meta
    /\ parsed.cdata = SubSeq(Blob, 13 + DeclaredLength, Len(Blob))

\* C4 as stated: container decode ends in HeaderTooSmall, BadMagic or
\* CorruptHeaderLength under their conditions, and otherwise returns the
\* version, the metadata of the declared length at offset 12 and the rest as
\* payload.
C4_ExactlyThreeErrors ==
    parsed.err # "not run" =>
        IF Len(Blob) < 12 THEN parsed.err = "HeaderTooSmall"
        ELSE IF SubSeq(Blob, 1, 4) # <<81, 68, 83, 88>> THEN parsed.err = "BadMagic"
        ELSE IF 12 + DeclaredLength > Len(Blob) THEN parsed.err = "CorruptHeaderLength"
        ELSE ReturnsDecoding(json_loads(SubSeq(Blob, 13, 12 + DeclaredLength)).val)

\* C4 amended: as C4, with one more outcome: when the length bound holds and
\* the metadata bytes are not parseable metadata, decode fails with the
\* metadata parser's error.
C4_WithMetadataError ==
    parsed.err # "not run" =>
        IF Len(Blob) < 12 THEN parsed.err = "HeaderTooSmall"
        ELSE IF SubSeq(Blob, 1, 4) # <<81, 68, 83, 88>> THEN parsed.err = "BadMagic"
        ELSE IF 12 + DeclaredLength > Len(Blob) THEN parsed.err = "CorruptHeaderLength"
        ELSE LET meta == json_loads(SubSeq(Blob, 13, 12 + DeclaredLength))
             IN  IF meta.err # "none" THEN parsed.err = "JSONDecodeError"
                 ELSE ReturnsDecoding(meta.val)

\* C4 witness: the declared metadata length was raised past the end of the
\* blob and decode ended in CorruptHeaderLength.
C4_Witness ==
    /\ damaged.kind = "byte" /\ damaged.at = 12
    /\ Len(Blob) >= 12
    /\ 12 + DeclaredLength > Len(Blob)
    /\ parsed.err = "CorruptHeaderLength"

\* C5: pack of an empty input attempts no candidate and writes an artifact
\* whose metadata records transform "none", codec "none", orig_size 0 and
\* whose payload is empty; unpack of that artifact runs neither the codec nor
\* the inverse transform and delivers the empty byte string.
C5_EmptyInput ==
    (pc = "Done" /\ raw = <<>>) =>
        LET p == parse_header(Blob)
        IN  /\ trace = <<>> /\ best_key = NoKey /\ best_size = NoSize
            /\ p.err = "none"
            /\ p.header["transform"] = "none"
            /\ p.header["codec"] = "none"
            /\ p.header["orig_size"] = 0
            /\ p.cdata = <<>>
            /\ u_res.err # "not run" =>
                  /\ u_res.err = "none"
                  /\ ~u_res.decoded
                  /\ (u_res.returned \/ u_res.wrote)
                  /\ Delivered = <<>>

\* C5 witness: an empty input was packed and the artifact unpacked to bytes.
C5_Witness ==
    /\ pc = "Done" /\ raw = <<>> /\ files["path.qdsx"].exists
    /\ u_res.returned /\ u_res.ret = <<>> /\ ~u_res.decoded

\* C6: RLE decode of an odd-length input signals an error.
C6_OddLengthRejected ==
    (t_stage = "decoded" /\ t_name = "rle" /\ Len(t_in) % 2 = 1) =>
        t_back.err # "none"

\* C7: once the search over a non-empty input has selected a candidate, that
\* candidate succeeded, no succeeded candidate is smaller, no earlier one in
\* iteration order is as small, and the metadata's names and the artifact's
\* payload are that candidate's.
C7_FirstMinimum ==
    (pc \notin {"Reading", "Searching"} /\ raw # <<>> /\ best_key # NoKey) =>
        /\ \A j, k \in Succeeded : j < k => IterationRank(trace[j]) < IterationRank(trace[k])
        /\ \E k \in Succeeded :
              /\ trace[k].t = best_key[1] /\ trace[k].c = best_key[2]
              /\ trace[k].size = Len(best_key[3]) /\ best_size = Len(best_key[3])
              /\ best_key[3] = enc(best_key[2], forward(best_key[1], raw), env).val
              /\ \A j \in Succeeded : trace[j].size >= trace[k].size
              /\ \A j \in Succeeded : trace[j].size = trace[k].size => j >= k
        /\ pc \in {"SelfVerifying", "Done"} =>
              LET p == parse_header(Blob)
              IN  /\ p.err = "none"
                  /\ p.header["transform"] = best_key[1]
                  /\ p.header["codec"] = best_key[2]
                  /\ p.cdata = best_key[3]

\* C7 witness: pack is done, two succeeded candidates tie at the least size,
\* and the selected one is not the first candidate tried.
C7_Witness ==
    /\ pc = "Done" /\ raw # <<>>
    /\ \E j, k \in Succeeded :
          /\ j < k
          /\ trace[j].size = best_size /\ trace[k].size = best_size
          /\ trace[j].t = best_key[1] /\ trace[j].c = best_key[2]
          /\ \E i \in Succeeded : i < j /\ trace[i].size > best_size

\* C8: after the search over a non-empty input, every transform was tried, a
\* failed transform or codec left an entry and nothing else, and every codec
\* was tried on every transform that succeeded; no error is raised by the
\* search; pack fails with NoViableStrategy exactly when no candidate
\* succeeded, and then no artifact file exists.
C8_FailuresSkipped ==
    (pc \notin {"Reading", "Searching"} /\ raw # <<>>) =>
        /\ \A t \in Range(TransformNames) :
              IF t \in env.tf_fail
              THEN /\ \E k \in 1..Len(trace) : trace[k].t = t /\ trace[k].end = "TRANSFORM FAIL"
                   /\ \A k \in 1..Len(trace) : trace[k].t = t => trace[k].end = "TRANSFORM FAIL"
              ELSE \A c \in Range(CodecNames) :
                      \E k \in 1..Len(trace) :
                          /\ trace[k].t = t /\ trace[k].c = c
                          /\ trace[k].end = IF c \in env.enc_fail THEN "CODEC FAIL" ELSE "ok"
        /\ err \notin {"TransformFailure", "CodecFailure"}
        /\ pc = "Selecting" => err = "none"
        /\ pc # "Selecting" => (err = "NoViableStrategy" <=> Succeeded = {})
        /\ err = "NoViableStrategy" => (pc = "Failed" /\ ~files["path.qdsx"].exists)

\* C8 witness: a transform failed, later a codec failed, the search went on
\* to the last candidate, none succeeded, and pack failed with no artifact.
C8_Witness ==
    /\ pc = "Failed" /\ err = "NoViableStrategy" /\ ~files["path.qdsx"].exists
    /\ Len(trace) > 2
    /\ trace[1].end = "TRANSFORM FAIL"
    /\ trace[2].end = "CODEC FAIL"
    /\ trace[Len(trace)].t = TransformNames[Len(TransformNames)]
    /\ trace[Len(trace)].c = CodecNames[Len(CodecNames)]

\* C9 as stated: the delta forward output at i is the input at i minus the
\* previous OUTPUT byte (0 before the first), modulo 256.
C9_PreviousOutput ==
    (t_stage = "forward" /\ t_name = "delta") =>
        \A i \in 1..Len(t_in) :
            t_out[i] = (t_in[i] - (IF i = 1 THEN 0 ELSE t_out[i - 1])) % 256

\* C9 amended: the delta forward output has the input's length and at i is the
\* input at i minus the previous INPUT byte (0 before the first), modulo 256.
C9_PreviousInput ==
    (t_stage = "forward" /\ t_name = "delta") =>
        /\ Len(t_out) = Len(t_in)
        /\ \A i \in 1..Len(t_in) :
              t_out[i] = (t_in[i] - (IF i = 1 THEN 0 ELSE t_in[i - 1])) % 256

\* C9 witness: delta was applied to an input of three bytes on which the two
\* readings differ, with a difference that wraps.
C9_Witness ==
    /\ t_stage = "forward" /\ t_name = "delta"
    /\ t_in = <<1, 0, 255>>
    /\ t_out = <<1, 255, 255>>

\* C10: the inverse of the composite transform on a payload shorter than the
\* 4-byte prefix reports an error; it never returns a result for it.
C10_ShortPayloadRejected ==
    (t_stage = "decoded" /\ t_name = "bwt_mtf_rle" /\ Len(t_in) < 4) =>
        t_back.err # "none"

====
